---- MODULE Spec2Model ----
(***************************************************************************)
(* The submap buffer (mapbuffer): a working set of submaps indexed by      *)
(* tripoint, saved to and demand-loaded from quad files on disk.           *)
(*                                                                         *)
(* A pointer is modelled as the pair of the coordinate its submap was made  *)
(* for and a serial number that tells it from any other live submap made   *)
(* for that coordinate (nullptr is the empty tuple); the heap is a function *)
(* from live pointers to submap objects.  A quad file is a                 *)
(* sequence of records and a record is a sequence of JSON members, read in *)
(* order exactly as mapbuffer::deserialize reads them.                     *)
(***************************************************************************)
EXTENDS Integers, Sequences, FiniteSets, TLC

VARIABLES
    submaps,         \* mapbuffer::submaps : tripoint -> submap*
    heap,            \* live submap objects : pointer -> [uniform, data]
    disk,            \* the files under <world>/maps : path -> sequence of records
    dirs,            \* the directories that exist under the world's save path
    disable_mapgen,  \* the global flag read by save_quad
    double_free,     \* some pointer was deleted twice
    crashed,         \* the process died on a null dereference
    steps,           \* the number of operations so far
    last             \* what the last operation was given and what it answered

vars == <<submaps, heap, disk, dirs, disable_mapgen, double_free, crashed, steps, last>>

----------------------------------------------------------------------------
(* Bounds of the model and program constants.                              *)

\* The number of operations in one behaviour.
MaxSteps == 3

\* game_constants.h: HALF_MAPSIZE, the window of save() beyond the map origin.
HALF_MAPSIZE == 5

nullptr == << >>

\* tripoint's default constructor: the zero point.
tripoint_zero == <<0, 0, 0>>

\* The submaps a caller hands to add_submap: is_uniform and an opaque payload.
TileKinds ==
    { [uniform |-> TRUE,  data |-> 1],
      [uniform |-> FALSE, data |-> 1],
      [uniform |-> FALSE, data |-> 2] }

\* The submap coordinates callers insert and remove at.
InsertCoords == { <<0, 0, 0>>, <<0, 1, 0>>, <<2001, 0, 1>> }

\* The submap coordinates callers look up.
Coords == InsertCoords \cup { <<1, 0, 0>>, <<-1, 0, 0>>, <<2000, 0, 1>> }

\* Where the game has the map at a save: the origin (in overmap terrain
\* coordinates), the z level, and whether the map has z levels.
MapViews ==
    { [origin |-> <<0, 0>>, levz |-> 0, zlevels |-> TRUE],
      [origin |-> <<1, 0>>, levz |-> 0, zlevels |-> FALSE],
      [origin |-> <<0, 0>>, levz |-> 1, zlevels |-> FALSE] }

----------------------------------------------------------------------------
(* Coordinate conversions and paths.                                       *)

\* sm_to_omt_copy: the quad (overmap terrain) a submap belongs to.
sm_to_omt_copy(p) == << p[1] \div 2, p[2] \div 2, p[3] >>

\* omt_to_sm_copy: the first submap of a quad.
omt_to_sm_copy(p) == << p[1] * 2, p[2] * 2, p[3] >>

\* omt_to_seg_copy: the segment (32x32 quads) a quad belongs to.
omt_to_seg_copy(p) == << p[1] \div 32, p[2] \div 32, p[3] >>

\* A number as string_format("%d") prints it: digits only.
FormatD(n) == [n |-> n, sep |-> FALSE]

\* A number as an ostream prints it under the global locale: with thousands
\* separators when the locale groups digits and the number has four or more.
FormatLocale(n, grouping) == [n |-> n, sep |-> grouping /\ (n >= 1000 \/ n <= -1000)]

MapsRoot == << "maps" >>

find_dirname(om_addr) == << "maps", omt_to_seg_copy(om_addr) >>

find_quad_path(dirname, om_addr) ==
    [dir |-> dirname, x |-> FormatD(om_addr[1]), y |-> FormatD(om_addr[2]),
     z |-> FormatD(om_addr[3])]

\* The path unserialize_submaps builds with std::ostringstream.
legacy_quad_path(dirname, om_addr, grouping) ==
    [dir |-> dirname, x |-> FormatLocale(om_addr[1], grouping),
     y |-> FormatLocale(om_addr[2], grouping), z |-> FormatLocale(om_addr[3], grouping)]

\* operator< of tripoint: the order std::map iterates in.
TripointLess(a, b) ==
    \/ a[1] < b[1]
    \/ a[1] = b[1] /\ a[2] < b[2]
    \/ a[1] = b[1] /\ a[2] = b[2] /\ a[3] < b[3]

\* point_zero, point_south, point_east, point_south_east, as save_quad pushes them.
offsets == << <<0, 0>>, <<0, 1>>, <<1, 0>>, <<1, 1>> >>

\* The four submap addresses of a quad, in the order save_quad visits them.
submap_addrs(om_addr) ==
    [i \in 1..4 |-> << omt_to_sm_copy(om_addr)[1] + offsets[i][1],
                       omt_to_sm_copy(om_addr)[2] + offsets[i][2],
                       omt_to_sm_copy(om_addr)[3] >>]

----------------------------------------------------------------------------
(* Quad files.                                                             *)

Member(n, v) == [n |-> n, v |-> v]

\* The record save_quad writes for the submap at addr with payload d.
Record(addr, d) ==
    << Member("version", "savegame_version"), Member("coordinates", addr), Member("payload", d) >>

\* A record with no "coordinates" member.
NoCoordRecord(d) == << Member("version", "savegame_version"), Member("payload", d) >>

\* A record that holds nothing but its version.
VersionOnlyRecord == << Member("version", "savegame_version") >>

\* A record the JSON reader throws on.
GarbageRecord == << Member("garbage", 0) >>

IsValidRecord(rec) ==
    /\ Len(rec) = 3
    /\ rec[1].n = "version" /\ rec[2].n = "coordinates" /\ rec[3].n = "payload"

Path(om_addr) == find_quad_path(find_dirname(om_addr), om_addr)

\* The file at the path of quad (0,0,0) holding the records given.
QuadFile(records) == Path(<<0, 0, 0>>) :> records

\* The disks a world can start with: nothing, or one file left by an earlier
\* run or an older version.
InitialDisks ==
    { << >>,
      \* three of the four members of the quad
      QuadFile(<< Record(<<0, 0, 0>>, 1), Record(<<0, 1, 0>>, 2), Record(<<1, 0, 0>>, 1) >>),
      \* a coordinate twice
      QuadFile(<< Record(<<0, 0, 0>>, 1), Record(<<0, 0, 0>>, 2), Record(<<0, 1, 0>>, 2) >>),
      \* two good records and one without coordinates, first, in the middle, last
      QuadFile(<< NoCoordRecord(1), Record(<<0, 1, 0>>, 2), Record(<<1, 0, 0>>, 1) >>),
      QuadFile(<< Record(<<0, 1, 0>>, 2), NoCoordRecord(1), Record(<<1, 0, 0>>, 1) >>),
      QuadFile(<< Record(<<0, 1, 0>>, 2), Record(<<1, 0, 0>>, 1), NoCoordRecord(1) >>),
      \* two good records and one that holds nothing but a version
      QuadFile(<< Record(<<0, 1, 0>>, 1), VersionOnlyRecord, Record(<<1, 0, 0>>, 2) >>),
      \* a record the reader throws on, first, in the middle, last
      QuadFile(<< GarbageRecord, Record(<<0, 0, 0>>, 1) >>),
      QuadFile(<< Record(<<0, 0, 0>>, 1), GarbageRecord, Record(<<0, 1, 0>>, 2) >>),
      QuadFile(<< Record(<<0, 0, 0>>, 1), Record(<<0, 1, 0>>, 2), GarbageRecord >>),
      \* an empty array
      QuadFile(<< >>),
      \* a file of an old version under its locale-formatted name
      legacy_quad_path(find_dirname(<<1000, 0, 1>>), <<1000, 0, 1>>, TRUE)
        :> << Record(<<2000, 0, 1>>, 2) >> }

DirsOf(d) == { p.dir : p \in DOMAIN d }

----------------------------------------------------------------------------
(* The container and the heap.                                             *)

Drop(f, k) == [x \in DOMAIN f \ {k} |-> f[x]]

\* std::map::operator[] default-inserts nullptr for a missing key.
Subscript(m, k) == IF k \in DOMAIN m THEN m ELSE m @@ (k :> nullptr)

\* operator new for a submap made for coordinate c: an address no live object has.
New(h, c) ==
    << c, CHOOSE n \in 1..(Cardinality(DOMAIN h) + 1) :
            /\ << c, n >> \notin DOMAIN h
            /\ \A k \in 1..(n - 1) : << c, k >> \in DOMAIN h >>

\* delete ptr: a no-op on nullptr, a double free on a dead pointer.
Delete(st, ptr) ==
    IF ptr = nullptr THEN st
    ELSE IF ptr \in DOMAIN st.heap THEN [st EXCEPT !.heap = Drop(st.heap, ptr)]
    ELSE [st EXCEPT !.double_free = TRUE]

\* The store as the operators below thread it through a call: diags counts the
\* debugmsg calls, status is "ok", "throw" (an exception is in flight) or "crash".
Store ==
    [submaps |-> submaps, heap |-> heap, disk |-> disk, dirs |-> dirs,
     double_free |-> double_free, diags |-> 0, status |-> "ok",
     saved |-> {}, calls |-> << >>, queue |-> << >>]

\* bool mapbuffer::add_submap( const tripoint &p, submap *sm )
add_submap_raw(m, p, sm) ==
    IF p \in DOMAIN m
    THEN [ok |-> FALSE, submaps |-> m]
    ELSE [ok |-> TRUE, submaps |-> m @@ (p :> sm)]

\* bool mapbuffer::add_submap( const tripoint &p, std::unique_ptr<submap> &sm ):
\* owner tells who holds sm afterwards.
add_submap(m, p, sm) ==
    LET r == add_submap_raw(m, p, sm)
    IN [ok |-> r.ok, submaps |-> r.submaps, owner |-> IF r.ok THEN "store" ELSE "caller"]

\* void mapbuffer::remove_submap( tripoint addr )
remove_submap(st, addr) ==
    IF addr \notin DOMAIN st.submaps
    THEN [st EXCEPT !.diags = @ + 1]
    ELSE [Delete(st, st.submaps[addr]) EXCEPT !.submaps = Drop(st.submaps, addr)]

\* void mapbuffer::reset()
reset(st) ==
    [st EXCEPT !.submaps = << >>,
               !.heap = [x \in DOMAIN st.heap \ { st.submaps[k] : k \in DOMAIN st.submaps }
                           |-> st.heap[x]]]

----------------------------------------------------------------------------
(* Loading: mapbuffer::deserialize, unserialize_submaps, lookup_submap.    *)

\* What happens when load() is called through a null unique_ptr (undefined
\* behaviour): the process dies, or the call goes through without touching it.
NullDerefOutcomes == {"crash", "skip"}

\* The inner loop of deserialize over the members of one record, from member j.
\* loc holds the locals sm, submap_coordinates and version.
RECURSIVE ReadMembers(_, _, _, _, _)
ReadMembers(st, loc, rec, j, ub) ==
    IF j > Len(rec) THEN [st |-> st, loc |-> loc]
    ELSE LET m == rec[j] IN
      CASE m.n = "version" ->
             ReadMembers(st, [loc EXCEPT !.version = m.v], rec, j + 1, ub)
        [] m.n = "coordinates" ->
             LET p   == New(st.heap, m.v)
                 st1 == [st EXCEPT !.heap = @ @@ (p :> [uniform |-> FALSE, data |-> 0])]
             IN ReadMembers(Delete(st1, loc.sm),
                            [loc EXCEPT !.sm = p, !.submap_coordinates = m.v], rec, j + 1, ub)
        [] m.n = "garbage" ->
             [st |-> [st EXCEPT !.status = "throw"], loc |-> loc]
        [] OTHER ->
             IF loc.sm = nullptr
             THEN LET st1 == [st EXCEPT !.diags = @ + 1]
                  IN IF ub = "crash"
                     THEN [st |-> [st1 EXCEPT !.status = "crash"], loc |-> loc]
                     ELSE ReadMembers(st1, loc, rec, j + 1, ub)
             ELSE ReadMembers([st EXCEPT !.heap[loc.sm].data = m.v], loc, rec, j + 1, ub)

\* ReadRecord giving up on the file when add_submap refuses the submap.
ReadRecord_AbortOnDuplicate(st, rec, ub) ==
    LET r == ReadMembers(st, [sm |-> nullptr, submap_coordinates |-> tripoint_zero,
                              version |-> 0], rec, 1, ub)
    IN IF r.st.status = "crash" THEN r.st
       ELSE IF r.st.status = "throw" THEN Delete(r.st, r.loc.sm)
       ELSE LET a == add_submap(r.st.submaps, r.loc.submap_coordinates, r.loc.sm)
            IN IF a.ok
               THEN [r.st EXCEPT !.submaps = a.submaps]
               ELSE Delete([r.st EXCEPT !.diags = @ + 1, !.status = "throw"], r.loc.sm)

\* One pass of the outer loop of deserialize: read a record, add the submap.
ReadRecord(st, rec, ub) ==
    LET r == ReadMembers(st, [sm |-> nullptr, submap_coordinates |-> tripoint_zero,
                              version |-> 0], rec, 1, ub)
    IN IF r.st.status = "crash" THEN r.st
       ELSE IF r.st.status = "throw" THEN Delete(r.st, r.loc.sm)
       ELSE LET a == add_submap(r.st.submaps, r.loc.submap_coordinates, r.loc.sm)
            IN IF a.ok
               THEN [r.st EXCEPT !.submaps = a.submaps]
               ELSE Delete([r.st EXCEPT !.diags = @ + 1], r.loc.sm)

\* void mapbuffer::deserialize( JsonIn &jsin ), from record i of the file.
RECURSIVE deserialize(_, _, _, _)
deserialize(st, file, i, ub) ==
    IF i > Len(file) \/ st.status # "ok" THEN st
    ELSE deserialize(ReadRecord(st, file[i], ub), file, i + 1, ub)

\* The file unserialize_submaps reads for p: the canonical path, or the
\* locale-formatted one when only that exists.
quad_path_of(st, p, grouping) ==
    LET om_addr == sm_to_omt_copy(p)
        dirname == find_dirname(om_addr)
        quad_path == find_quad_path(dirname, om_addr)
        legacy == legacy_quad_path(dirname, om_addr, grouping)
    IN IF quad_path \notin DOMAIN st.disk /\ legacy \in DOMAIN st.disk
       THEN legacy ELSE quad_path

\* unserialize_submaps answering submaps[ p ] when there is no file to read.
unserialize_submaps_NoEarlyReturn(st, p, grouping, ub) ==
    LET quad_path == quad_path_of(st, p, grouping)
    IN IF quad_path \notin DOMAIN st.disk
       THEN [st |-> [st EXCEPT !.submaps = Subscript(@, p)], ret |-> nullptr, read |-> FALSE]
       ELSE LET st1 == deserialize(st, st.disk[quad_path], 1, ub)
            IN IF st1.status # "ok" THEN [st |-> st1, ret |-> nullptr, read |-> TRUE]
               ELSE IF p \notin DOMAIN st1.submaps
               THEN [st |-> [st1 EXCEPT !.diags = @ + 1], ret |-> nullptr, read |-> TRUE]
               ELSE [st |-> st1, ret |-> st1.submaps[p], read |-> TRUE]

\* submap *mapbuffer::unserialize_submaps( const tripoint &p )
unserialize_submaps(st, p, grouping, ub) ==
    LET quad_path == quad_path_of(st, p, grouping)
    IN IF quad_path \notin DOMAIN st.disk
       THEN [st |-> st, ret |-> nullptr, read |-> FALSE]
       ELSE LET st1 == deserialize(st, st.disk[quad_path], 1, ub)
            IN IF st1.status # "ok" THEN [st |-> st1, ret |-> nullptr, read |-> TRUE]
               ELSE IF p \notin DOMAIN st1.submaps
               THEN [st |-> [st1 EXCEPT !.diags = @ + 1], ret |-> nullptr, read |-> TRUE]
               ELSE [st |-> st1, ret |-> st1.submaps[p], read |-> TRUE]

\* lookup_submap without its catch: the exception leaves the call.
lookup_submap_NoCatch(st, p, grouping, ub) ==
    IF p \notin DOMAIN st.submaps
    THEN LET r == unserialize_submaps(st, p, grouping, ub)
         IN [st |-> r.st, ret |-> r.ret, read |-> r.read, threw |-> FALSE]
    ELSE [st |-> st, ret |-> st.submaps[p], read |-> FALSE, threw |-> FALSE]

\* submap *mapbuffer::lookup_submap( const tripoint &p )
lookup_submap(st, p, grouping, ub) ==
    IF p \notin DOMAIN st.submaps
    THEN LET r == unserialize_submaps(st, p, grouping, ub)
         IN IF r.st.status = "throw"
            THEN [st |-> [r.st EXCEPT !.diags = @ + 1, !.status = "ok"], ret |-> nullptr,
                  read |-> r.read, threw |-> TRUE]
            ELSE [st |-> r.st, ret |-> r.ret, read |-> r.read, threw |-> FALSE]
    ELSE [st |-> st, ret |-> st.submaps[p], read |-> FALSE, threw |-> FALSE]

----------------------------------------------------------------------------
(* Saving: mapbuffer::save_quad and mapbuffer::save.                       *)

\* The first loop of save_quad: reads submaps[submap_addr] for the four members.
RECURSIVE TouchMembers(_, _, _)
TouchMembers(m, addrs, i) ==
    IF i > Len(addrs) THEN m ELSE TouchMembers(Subscript(m, addrs[i]), addrs, i + 1)

\* all_uniform with the test of is_uniform inverted.
AllUniform_Inverted(m, h, addrs) ==
    \A i \in 1..Len(addrs) : ~(m[addrs[i]] # nullptr /\ h[m[addrs[i]]].uniform)

\* all_uniform after the first loop of save_quad.
AllUniform(m, h, addrs) ==
    \A i \in 1..Len(addrs) : ~(m[addrs[i]] # nullptr /\ ~h[m[addrs[i]]].uniform)

\* PresentMembers stopping at the first member it finds.
RECURSIVE PresentMembers_StopAtFirst(_, _, _)
PresentMembers_StopAtFirst(m, addrs, i) ==
    IF i > Len(addrs) THEN << >>
    ELSE IF addrs[i] \in DOMAIN m /\ m[addrs[i]] # nullptr
         THEN << addrs[i] >>
         ELSE PresentMembers_StopAtFirst(m, addrs, i + 1)

\* The members save_quad writes (and queues): in the index and not nullptr.
RECURSIVE PresentMembers(_, _, _)
PresentMembers(m, addrs, i) ==
    IF i > Len(addrs) THEN << >>
    ELSE IF addrs[i] \in DOMAIN m /\ m[addrs[i]] # nullptr
         THEN << addrs[i] >> \o PresentMembers(m, addrs, i + 1)
         ELSE PresentMembers(m, addrs, i + 1)

\* The records with the quad's first submap address in place of each member's.
WriteRecords_QuadAddr(m, h, present) ==
    [i \in 1..Len(present) |->
        Record(omt_to_sm_copy(sm_to_omt_copy(present[i])), h[m[present[i]]].data)]

\* The array of records save_quad writes for the members given.
WriteRecords(m, h, present) ==
    [i \in 1..Len(present) |-> Record(present[i], h[m[present[i]]].data)]

\* void mapbuffer::save_quad( dirname, filename, om_addr, submaps_to_delete,
\*                            delete_after_save )
save_quad(st, dirname, filename, om_addr, delete_after_save) ==
    LET addrs   == submap_addrs(om_addr)
        m       == TouchMembers(st.submaps, addrs, 1)
        st1     == [st EXCEPT !.submaps = m, !.calls = Append(@, om_addr)]
        present == PresentMembers(m, addrs, 1)
    IN IF AllUniform(m, st.heap, addrs)
       THEN IF delete_after_save THEN [st1 EXCEPT !.queue = @ \o present] ELSE st1
       ELSE IF disable_mapgen THEN st1
       ELSE [st1 EXCEPT !.dirs = @ \cup {dirname},
                        !.disk = [q \in DOMAIN @ \cup {filename} |->
                                    IF q = filename THEN WriteRecords(m, st.heap, present)
                                    ELSE @[q]],
                        !.queue = IF delete_after_save THEN @ \o present ELSE @]

\* DeleteQuad with the origin's own row and column outside the window.
DeleteQuad_OriginExcluded(om_addr, delete_after_save, map_origin, levz, map_has_zlevels) ==
    LET zlev_del == ~map_has_zlevels /\ om_addr[3] # levz
    IN \/ delete_after_save
       \/ zlev_del
       \/ om_addr[1] <= map_origin[1]
       \/ om_addr[2] <= map_origin[2]
       \/ om_addr[1] > map_origin[1] + HALF_MAPSIZE
       \/ om_addr[2] > map_origin[2] + HALF_MAPSIZE

\* Whether save() asks save_quad to delete the quad at om_addr.
DeleteQuad(om_addr, delete_after_save, map_origin, levz, map_has_zlevels) ==
    LET zlev_del == ~map_has_zlevels /\ om_addr[3] # levz
    IN \/ delete_after_save
       \/ zlev_del
       \/ om_addr[1] < map_origin[1]
       \/ om_addr[2] < map_origin[2]
       \/ om_addr[1] > map_origin[1] + HALF_MAPSIZE
       \/ om_addr[2] > map_origin[2] + HALF_MAPSIZE

\* The element a std::map iterator reaches next: the least key above cur (any
\* key, when the iteration is at its start).
NextKeys(m, atBegin, cur) == { k \in DOMAIN m : atBegin \/ TripointLess(cur, k) }

Least(S) == CHOOSE k \in S : \A o \in S \ {k} : TripointLess(k, o)

\* SaveLoop without its set of quads already saved: save_quad for every element.
RECURSIVE SaveLoop_NoSavedSet(_, _, _, _, _, _, _)
SaveLoop_NoSavedSet(st, atBegin, cur, del, map_origin, levz, map_has_zlevels) ==
    LET keys == NextKeys(st.submaps, atBegin, cur)
    IN IF keys = {} THEN st
       ELSE LET elem      == Least(keys)
                om_addr   == sm_to_omt_copy(elem)
                dirname   == find_dirname(om_addr)
                quad_path == find_quad_path(dirname, om_addr)
                st1 == save_quad([st EXCEPT !.saved = @ \cup {om_addr}],
                                 dirname, quad_path, om_addr,
                                 DeleteQuad(om_addr, del, map_origin, levz, map_has_zlevels))
            IN SaveLoop_NoSavedSet(st1, FALSE, elem, del, map_origin, levz, map_has_zlevels)

\* The first loop of save(): for( auto &elem : submaps ).
RECURSIVE SaveLoop(_, _, _, _, _, _, _)
SaveLoop(st, atBegin, cur, del, map_origin, levz, map_has_zlevels) ==
    LET keys == NextKeys(st.submaps, atBegin, cur)
    IN IF keys = {} THEN st
       ELSE LET elem    == Least(keys)
                om_addr == sm_to_omt_copy(elem)
            IN IF om_addr \in st.saved
               THEN SaveLoop(st, FALSE, elem, del, map_origin, levz, map_has_zlevels)
               ELSE LET dirname   == find_dirname(om_addr)
                        quad_path == find_quad_path(dirname, om_addr)
                        st1 == save_quad([st EXCEPT !.saved = @ \cup {om_addr}],
                                         dirname, quad_path, om_addr,
                                         DeleteQuad(om_addr, del, map_origin, levz,
                                                    map_has_zlevels))
                    IN SaveLoop(st1, FALSE, elem, del, map_origin, levz, map_has_zlevels)

\* The second loop of save(): remove_submap for every queued address.
RECURSIVE RemoveQueued(_, _, _)
RemoveQueued(st, queue, i) ==
    IF i > Len(queue) THEN st ELSE RemoveQueued(remove_submap(st, queue[i]), queue, i + 1)

\* void mapbuffer::save( bool delete_after_save )
save(st, delete_after_save, map_origin, levz, map_has_zlevels) ==
    LET st0 == [st EXCEPT !.dirs = @ \cup {MapsRoot}]
        st1 == SaveLoop(st0, TRUE, tripoint_zero, delete_after_save, map_origin, levz,
                        map_has_zlevels)
    IN RemoveQueued(st1, st1.queue, 1)

----------------------------------------------------------------------------
(* Operations.                                                             *)

Blank ==
    [op |-> "none", c |-> tripoint_zero, ptr |-> nullptr, ok |-> FALSE, diags |-> 0,
     threw |-> FALSE, status |-> "ok", read |-> FALSE, del |-> FALSE, origin |-> <<0, 0>>, levz |-> 0,
     zlevels |-> FALSE, grouping |-> FALSE, pre |-> "none"]

\* What the index holds at c: "none" (no entry), "null" (a nullptr entry), "tile".
Entry(m, c) ==
    IF c \notin DOMAIN m THEN "none" ELSE IF m[c] = nullptr THEN "null" ELSE "tile"

\* The submap objects the buffer owns.
Owned(m) == { m[k] : k \in DOMAIN m } \ {nullptr}

\* A caller still holds a submap add_submap rejected.
CallerHolds == last.op = "insert" /\ ~last.ok /\ last.ptr \in DOMAIN heap

Init ==
    /\ submaps = << >>
    /\ heap = << >>
    /\ disk \in InitialDisks
    /\ dirs = DirsOf(disk)
    /\ disable_mapgen = FALSE
    /\ double_free = FALSE
    /\ crashed = FALSE
    /\ steps = 0
    /\ last = Blank

\* A caller makes a submap and hands it to add_submap.
Insert ==
    /\ steps < MaxSteps /\ steps' = steps + 1
    /\ ~crashed /\ ~CallerHolds
    /\ \E c \in InsertCoords, k \in TileKinds :
         LET sm == New(heap, c)
             r  == add_submap(submaps, c, sm)
         IN /\ submaps' = r.submaps
            /\ heap' = heap @@ (sm :> k)
            /\ last' = [Blank EXCEPT !.op = "insert", !.c = c, !.ptr = sm,
                                     !.ok = r.ok, !.pre = Entry(submaps, c)]
    /\ UNCHANGED <<disk, dirs, disable_mapgen, double_free, crashed>>

\* The caller lets go of the submap add_submap rejected.
Discard ==
    /\ steps < MaxSteps /\ steps' = steps + 1
    /\ ~crashed /\ CallerHolds
    /\ heap' = Drop(heap, last.ptr)
    /\ last' = [Blank EXCEPT !.op = "discard"]
    /\ UNCHANGED <<submaps, disk, dirs, disable_mapgen, double_free, crashed>>

\* remove_submap at a coordinate the callers know.
Remove ==
    /\ steps < MaxSteps /\ steps' = steps + 1
    /\ ~crashed /\ ~CallerHolds
    /\ \E c \in InsertCoords :
         LET st == remove_submap(Store, c)
         IN /\ submaps' = st.submaps
            /\ heap' = st.heap
            /\ double_free' = st.double_free
            /\ last' = [Blank EXCEPT !.op = "remove", !.c = c, !.diags = st.diags,
                                     !.pre = Entry(submaps, c),
                                     !.ptr = IF c \in DOMAIN submaps THEN submaps[c] ELSE nullptr]
    /\ UNCHANGED <<disk, dirs, disable_mapgen, crashed>>

\* The locales that matter to a lookup of p: whether the locale groups digits
\* changes the path only of a quad with a coordinate of four or more digits.
Groupings(p) ==
    IF legacy_quad_path(find_dirname(sm_to_omt_copy(p)), sm_to_omt_copy(p), TRUE)
         = Path(sm_to_omt_copy(p))
    THEN {FALSE} ELSE BOOLEAN

\* What a null dereference can do in a lookup of p: a choice only when the
\* lookup makes one.
Outcomes(p, grouping) ==
    IF lookup_submap(Store, p, grouping, "crash").st.status = "crash"
    THEN NullDerefOutcomes ELSE {"skip"}

\* lookup_submap: grouping is whether the global locale groups digits, ub what
\* a null dereference does in this build.
Get ==
    /\ steps < MaxSteps /\ steps' = steps + 1
    /\ ~crashed /\ ~CallerHolds
    /\ \E c \in Coords :
       \E grouping \in Groupings(c) :
       \E ub \in Outcomes(c, grouping) :
         LET r == lookup_submap(Store, c, grouping, ub)
         IN /\ submaps' = r.st.submaps
            /\ heap' = r.st.heap
            /\ double_free' = r.st.double_free
            /\ crashed' = (r.st.status = "crash")
            /\ last' = [Blank EXCEPT !.op = "get", !.c = c, !.ptr = r.ret,
                                     !.diags = r.st.diags, !.threw = r.threw,
                                     !.status = r.st.status,
                                     !.read = r.read, !.grouping = grouping,
                                     !.pre = Entry(submaps, c)]
    /\ UNCHANGED <<disk, dirs, disable_mapgen>>

\* save( delete_after_save ) with the map where the game has it.
Flush ==
    /\ steps < MaxSteps /\ steps' = steps + 1
    /\ ~crashed /\ ~CallerHolds
    /\ \E del \in BOOLEAN, view \in MapViews :
         LET st == save(Store, del, view.origin, view.levz, view.zlevels)
         IN /\ submaps' = st.submaps
            /\ heap' = st.heap
            /\ disk' = st.disk
            /\ dirs' = st.dirs
            /\ double_free' = st.double_free
            /\ last' = [Blank EXCEPT !.op = "flush", !.del = del, !.origin = view.origin,
                                     !.levz = view.levz, !.zlevels = view.zlevels,
                                     !.diags = st.diags]
    /\ UNCHANGED <<disable_mapgen, crashed>>

\* reset(): the buffer is torn down and starts empty again.
Reset ==
    /\ steps < MaxSteps /\ steps' = steps + 1
    /\ ~crashed /\ ~CallerHolds
    /\ submaps # << >>
    /\ LET st == reset(Store)
       IN /\ submaps' = st.submaps
          /\ heap' = st.heap
    /\ last' = [Blank EXCEPT !.op = "reset"]
    /\ UNCHANGED <<disk, dirs, disable_mapgen, double_free, crashed>>

\* The game switches map generation off or on.
SetDisableMapgen ==
    /\ steps < MaxSteps /\ steps' = steps + 1
    /\ ~crashed /\ ~CallerHolds
    /\ disable_mapgen' = ~disable_mapgen
    /\ last' = [Blank EXCEPT !.op = "mapgen"]
    /\ UNCHANGED <<submaps, heap, disk, dirs, double_free, crashed>>

Next ==
    \/ Insert
    \/ Discard
    \/ Remove
    \/ Get
    \/ Flush
    \/ Reset
    \/ SetDisableMapgen

Spec == Init /\ [][Next]_vars

----------------------------------------------------------------------------
(* Vocabulary of the properties.                                           *)

\* c holds a submap: it is in the index and its pointer is not nullptr.
Resident(m, c) == c \in DOMAIN m /\ m[c] # nullptr

\* The members of quad q, as a set.
MembersOf(q) == { submap_addrs(q)[i] : i \in 1..4 }

\* The quads the properties range over.
Quads(m) == { sm_to_omt_copy(c) : c \in Coords \cup DOMAIN m }

\* Every path a file of quad q can have.
PathsOf(q) ==
    { Path(q) } \cup { legacy_quad_path(find_dirname(q), q, g) : g \in BOOLEAN }

\* A buffer just constructed, over the disk d.
FreshStore(d) ==
    [submaps |-> << >>, heap |-> << >>, disk |-> d, dirs |-> DirsOf(d),
     double_free |-> FALSE, diags |-> 0, status |-> "ok",
     saved |-> {}, calls |-> << >>, queue |-> << >>]

\* A fresh buffer reading disk d answers get(c) with a submap made for c,
\* indexed at c, that carries the payload data.
RoundTrips(d, c, data) ==
    \A g \in BOOLEAN, ub \in NullDerefOutcomes :
       LET r == lookup_submap(FreshStore(d), c, g, ub)
       IN /\ r.ret # nullptr
          /\ r.ret[1] = c
          /\ r.st.submaps[c] = r.ret
          /\ r.st.heap[r.ret].data = data

\* No member of q holds a submap that is not uniform.
NoNonUniform(m, h, q) ==
    \A a \in MembersOf(q) : ~(Resident(m, a) /\ ~h[m[a]].uniform)

\* The coordinates of the records of a file (of its well-formed records).
FileCoords(file) == { file[i][2].v : i \in { j \in 1..Len(file) : IsValidRecord(file[j]) } }

\* A file of well-formed records for pairwise distinct members of quad q.
MembersFile(file, q) ==
    /\ \A i \in 1..Len(file) : IsValidRecord(file[i]) /\ file[i][2].v \in MembersOf(q)
    /\ \A i, j \in 1..Len(file) : file[i][2].v = file[j][2].v => i = j

----------------------------------------------------------------------------
(* C1.  At most one resident copy: add_submap at a coordinate that holds a  *)
(* submap t1 answers false, leaves the index and t1 as they were (get      *)
(* answers t1) and leaves the submap offered with the caller, neither      *)
(* freed nor kept; add_submap at a coordinate that holds no submap answers *)
(* true and get then answers the submap offered.                           *)
C1_AtMostOneCopy ==
    [][ last'.op = "insert" =>
          LET c == last'.c
              t == last'.ptr
          IN IF Resident(submaps, c)
             THEN /\ ~last'.ok
                  /\ submaps' = submaps
                  /\ heap'[submaps[c]] = heap[submaps[c]]
                  /\ \A g \in BOOLEAN, ub \in NullDerefOutcomes :
                        lookup_submap(Store', c, g, ub).ret = submaps[c]
                  /\ t \in DOMAIN heap' /\ t \notin Owned(submaps')
             ELSE /\ last'.ok
                  /\ \A g \in BOOLEAN, ub \in NullDerefOutcomes :
                        lookup_submap(Store', c, g, ub).ret = t ]_vars

(* C2.  Round trip, as claimed: after save(false), a fresh buffer reading   *)
(* the same disk answers get(c), for every c that held a submap that is    *)
(* not uniform, with a submap of the same coordinate and payload.          *)
C2_RoundTrip_Original ==
    [][ (last'.op = "flush" /\ ~last'.del) =>
          \A c \in DOMAIN submaps :
             (Resident(submaps, c) /\ ~heap[submaps[c]].uniform)
                => RoundTrips(disk', c, heap[submaps[c]].data) ]_vars

(* C2, amended: the same, when map generation is not disabled.             *)
C2_RoundTrip ==
    [][ (last'.op = "flush" /\ ~last'.del /\ ~disable_mapgen) =>
          \A c \in DOMAIN submaps :
             (Resident(submaps, c) /\ ~heap[submaps[c]].uniform)
                => RoundTrips(disk', c, heap[submaps[c]].data) ]_vars

\* A save(false) with map generation on has left a submap that is not uniform
\* both in the buffer and in its quad's file.
C2_Witness ==
    /\ last.op = "flush" /\ ~last.del /\ ~disable_mapgen
    /\ \E c \in DOMAIN submaps :
          /\ Resident(submaps, c) /\ ~heap[submaps[c]].uniform
          /\ Path(sm_to_omt_copy(c)) \in DOMAIN disk
          /\ c \in FileCoords(disk[Path(sm_to_omt_copy(c))])
          /\ c # omt_to_sm_copy(sm_to_omt_copy(c))

(* C3.  Uniform elision: a save, deleting or not, leaves the disk as it is  *)
(* at every path of a quad none of whose members holds a submap that is    *)
(* not uniform: no file is created there and none is overwritten.          *)
C3_UniformElision ==
    [][ last'.op = "flush" =>
          \A q \in Quads(submaps) :
             NoNonUniform(submaps, heap, q) =>
                \A path \in PathsOf(q) :
                   /\ path \in DOMAIN disk' <=> path \in DOMAIN disk
                   /\ path \in DOMAIN disk => disk'[path] = disk[path] ]_vars

\* After a save a uniform submap is still in the buffer and its quad, which
\* holds nothing that is not uniform, has no file.
C3_Witness ==
    /\ last.op = "flush"
    /\ \E c \in DOMAIN submaps :
          /\ Resident(submaps, c) /\ heap[submaps[c]].uniform
          /\ NoNonUniform(submaps, heap, sm_to_omt_copy(c))
          /\ \A path \in PathsOf(sm_to_omt_copy(c)) : path \notin DOMAIN disk

(* C4.  save(true) deletes everything: no coordinate that held a submap     *)
(* before the save is in the index after it.                               *)
C4_FlushTrueDeletesAll ==
    [][ (last'.op = "flush" /\ last'.del) =>
          \A c \in DOMAIN submaps : Resident(submaps, c) => c \notin DOMAIN submaps' ]_vars

(* C5.  A demand-load loads the whole file in one call: get(c) for c not in  *)
(* the buffer, over a file of records for k members of c's quad, c among   *)
(* them, leaves all k holding a submap and answers c's; a get of any of    *)
(* the k then answers the submap in the buffer without reading the file.   *)
C5_LoadsWholeChunk ==
    [][ (last'.op = "get" /\ ~Resident(submaps, last'.c)) =>
          LET c    == last'.c
              path == quad_path_of(Store, c, last'.grouping)
          IN (/\ path \in DOMAIN disk
              /\ MembersFile(disk[path], sm_to_omt_copy(c))
              /\ c \in FileCoords(disk[path]))
             => /\ \A k \in FileCoords(disk[path]) : Resident(submaps', k)
                /\ last'.ptr # nullptr
                /\ Resident(submaps', c) /\ last'.ptr = submaps'[c]
                /\ \A k \in FileCoords(disk[path]) :
                   \A g \in BOOLEAN, ub \in NullDerefOutcomes :
                      LET r == lookup_submap(Store', k, g, ub)
                      IN ~r.read /\ Resident(submaps', k) /\ r.ret = submaps'[k] ]_vars

(* C6.  Not found is an absence: get(c) for c that holds no submap, with no  *)
(* file of its quad at the canonical path or at a legacy one, answers      *)
(* nullptr and leaves the buffer and the disk exactly as they were.        *)
C6_NotFoundIsAbsence ==
    [][ (/\ last'.op = "get"
         /\ ~Resident(submaps, last'.c)
         /\ \A path \in PathsOf(sm_to_omt_copy(last'.c)) : path \notin DOMAIN disk)
        => /\ last'.ptr = nullptr
           /\ last'.status = "ok" /\ ~crashed'
           /\ submaps' = submaps /\ heap' = heap
           /\ disk' = disk /\ dirs' = dirs ]_vars

\* A get of a coordinate that was not in the index, with no file of its quad
\* on the disk, has answered nullptr without reading anything.
C6_Witness ==
    /\ last.op = "get" /\ last.pre = "none" /\ ~last.read /\ last.ptr = nullptr
    /\ \A path \in PathsOf(sm_to_omt_copy(last.c)) : path \notin DOMAIN disk
    /\ disk # << >>

\* A record with no "coordinates" member the reader can decode.
LacksCoordinates(rec) ==
    \A j \in 1..Len(rec) : rec[j].n # "coordinates" /\ rec[j].n # "garbage"

\* A file of three records: two well-formed ones for distinct coordinates and
\* one that lacks its coordinates, wherever it stands.
TwoGoodOneMalformed(file) ==
    /\ Len(file) = 3
    /\ \E i \in 1..3 :
          /\ LacksCoordinates(file[i])
          /\ \A j \in (1..3) \ {i} : IsValidRecord(file[j])
    /\ Cardinality(FileCoords(file)) = 2

(* C7.  Malformed record recovery: a demand-load of a file of two good      *)
(* records and one that lacks its coordinates leaves the two good submaps  *)
(* in the buffer and adds nothing else to the index, reports one           *)
(* diagnostic, and neither throws nor crashes.                             *)
C7_MalformedRecordRecovery ==
    [][ (/\ last'.op = "get" /\ last'.read
         /\ LET path == quad_path_of(Store, last'.c, last'.grouping)
            IN /\ path \in DOMAIN disk
               /\ TwoGoodOneMalformed(disk[path])
               /\ last'.c \in FileCoords(disk[path])
               /\ FileCoords(disk[path]) \cap DOMAIN submaps = {})
        => LET file == disk[quad_path_of(Store, last'.c, last'.grouping)]
           IN /\ ~crashed' /\ last'.status = "ok" /\ ~last'.threw
              /\ DOMAIN submaps' = DOMAIN submaps \cup FileCoords(file)
              /\ \A k \in FileCoords(file) : Resident(submaps', k)
              /\ last'.diags = 1 ]_vars

\* The number of leading well-formed records of a file.
WellFormedPrefix(file) ==
    CHOOSE n \in 0..Len(file) :
       /\ \A i \in 1..n : IsValidRecord(file[i])
       /\ n = Len(file) \/ ~IsValidRecord(file[n + 1])

\* The payload of the first of the leading well-formed records for coordinate k.
FirstData(file, k) ==
    LET i == CHOOSE i \in 1..WellFormedPrefix(file) :
                /\ file[i][2].v = k
                /\ \A j \in 1..(i - 1) : file[j][2].v # k
    IN file[i][3].v

\* Among the leading well-formed records, one is for a coordinate that holds a
\* submap when it is decoded: one in the buffer before, or one of an earlier record.
HasDuplicate(m, file) ==
    \E i \in 1..WellFormedPrefix(file) :
       \/ Resident(m, file[i][2].v)
       \/ file[i][2].v \notin DOMAIN m /\ \E j \in 1..(i - 1) : file[j][2].v = file[i][2].v

NullDeref(rec) ==
    \E j \in 1..Len(rec) :
       /\ rec[j].n = "payload"
       /\ \A k \in 1..(j - 1) : rec[k].n # "coordinates"

HasGarbage(rec) == \E j \in 1..Len(rec) : rec[j].n = "garbage"

\* Decoding the file reaches a record the reader throws on.
Throws(file) ==
    \E i \in 1..Len(file) :
       /\ HasGarbage(file[i])
       /\ \A j \in 1..(i - 1) : ~HasGarbage(file[j]) /\ ~NullDeref(file[j])

(* C9.  Soft failure of get: when c is not in the index and decoding its    *)
(* quad's file throws at some record, get(c) answers nullptr and the       *)
(* exception does not leave the call.                                      *)
C9_SoftFailure ==
    [][ (/\ last'.op = "get"
         /\ last'.c \notin DOMAIN submaps
         /\ LET path == quad_path_of(Store, last'.c, last'.grouping)
            IN path \in DOMAIN disk /\ Throws(disk[path]))
        => /\ last'.ptr = nullptr
           /\ last'.status = "ok"
           /\ ~crashed' ]_vars

\* A get has caught a decoding error after a record of the file was loaded.
C9_Witness ==
    /\ last.op = "get" /\ last.threw /\ last.ptr = nullptr /\ last.diags >= 1
    /\ Resident(submaps, last.c)

Abs(n) == IF n < 0 THEN -n ELSE n

\* Quad q lies further than HALF_MAPSIZE from the origin along x or along y.
OutsideWindow(q, origin) ==
    \/ Abs(q[1] - origin[1]) > HALF_MAPSIZE
    \/ Abs(q[2] - origin[2]) > HALF_MAPSIZE

\* The addresses a save queues for deletion.
QueuedBy(st, del, origin, levz, zlevels) ==
    LET q == SaveLoop(st, TRUE, tripoint_zero, del, origin, levz, zlevels).queue
    IN { q[i] : i \in 1..Len(q) }

(* C10.  Deletion window: with the origin at (0,0), save(false) queues for  *)
(* deletion every submap of a quad further than HALF_MAPSIZE from the      *)
(* origin, and it is out of the index when the save returns.               *)
C10_DeletionWindow ==
    [][ (last'.op = "flush" /\ ~last'.del /\ last'.origin = <<0, 0>>) =>
          \A c \in DOMAIN submaps :
             (Resident(submaps, c) /\ OutsideWindow(sm_to_omt_copy(c), last'.origin))
                => /\ c \in QueuedBy(Store, FALSE, last'.origin, last'.levz, last'.zlevels)
                   /\ c \notin DOMAIN submaps' ]_vars

\* Quad q lies inside the window: within HALF_MAPSIZE beyond the origin along x
\* and along y.
InsideWindow(q, origin) ==
    /\ origin[1] <= q[1] /\ q[1] <= origin[1] + HALF_MAPSIZE
    /\ origin[2] <= q[2] /\ q[2] <= origin[2] + HALF_MAPSIZE

\* Quad q is eligible for deletion after a save: deletion was asked for, or the
\* map has no z levels and q is on another level, or q is outside the window.
Eligible(q, del, origin, levz, zlevels) ==
    \/ del
    \/ ~zlevels /\ q[3] # levz
    \/ ~InsideWindow(q, origin)

(* C11.  Retention inside the window: save(false) takes a submap out of the  *)
(* buffer only if its quad is eligible for deletion; a submap whose quad   *)
(* is inside the window, on the current level or with a map that has z     *)
(* levels, is in the buffer after the save, same pointer, same payload.    *)
C11_RetentionInsideWindow ==
    [][ (last'.op = "flush" /\ ~last'.del) =>
          \A c \in DOMAIN submaps :
             Resident(submaps, c) =>
                LET q == sm_to_omt_copy(c)
                IN /\ ~(Resident(submaps', c) /\ submaps'[c] = submaps[c])
                        => Eligible(q, FALSE, last'.origin, last'.levz, last'.zlevels)
                   /\ (/\ InsideWindow(q, last'.origin)
                       /\ (q[3] = last'.levz \/ last'.zlevels))
                        => /\ Resident(submaps', c) /\ submaps'[c] = submaps[c]
                           /\ submaps[c] \in DOMAIN heap'
                           /\ heap'[submaps[c]] = heap[submaps[c]] ]_vars

\* A save(false) has kept a submap whose quad is inside the window and has
\* taken out the one at (2001,0,1), outside it, after writing its file.
C11_Witness ==
    /\ last.op = "flush" /\ ~last.del
    /\ \E c \in DOMAIN submaps :
          /\ Resident(submaps, c) /\ ~heap[submaps[c]].uniform
          /\ InsideWindow(sm_to_omt_copy(c), last.origin)
          /\ (c[3] = last.levz \/ last.zlevels)
    /\ <<2001, 0, 1>> \notin DOMAIN submaps
    /\ Path(<<1000, 0, 1>>) \in DOMAIN disk

\* A path with a thousands separator in it: one only the locale-formatted
\* naming of old versions produces.
IsLegacyPath(path) == path.x.sep \/ path.y.sep \/ path.z.sep

\* The payload of the record of a file for coordinate k.
DataOf(file, k) ==
    file[CHOOSE i \in 1..Len(file) : IsValidRecord(file[i]) /\ file[i][2].v = k][3].v

(* C12.  The legacy path is a read-only fallback: get(c), with no file of    *)
(* c's quad at the canonical path and one at the legacy path that records  *)
(* c, answers c's submap with the payload recorded; and a save neither     *)
(* creates nor changes a file at a legacy path.                            *)
C12_LegacyFallbackReadOnly ==
    [][ /\ last'.op = "get" =>
              LET c      == last'.c
                  q      == sm_to_omt_copy(c)
                  legacy == legacy_quad_path(find_dirname(q), q, last'.grouping)
              IN (/\ Path(q) \notin DOMAIN disk
                  /\ legacy \in DOMAIN disk
                  /\ MembersFile(disk[legacy], q)
                  /\ c \in FileCoords(disk[legacy]))
                 => /\ last'.ptr # nullptr
                    /\ Resident(submaps', c) /\ submaps'[c] = last'.ptr
                    /\ last'.ptr \in DOMAIN heap'
                    /\ c \notin DOMAIN submaps
                          => heap'[last'.ptr].data = DataOf(disk[legacy], c)
        /\ last'.op = "flush" =>
              \A path \in DOMAIN disk \cup DOMAIN disk' :
                 IsLegacyPath(path) =>
                    /\ path \in DOMAIN disk /\ path \in DOMAIN disk'
                    /\ disk'[path] = disk[path] ]_vars

(* C13.  remove_submap at a coordinate that holds a submap erases that entry  *)
(* and no other and frees the submap, once; at a coordinate that holds no   *)
(* submap it reports a diagnostic and leaves the index and the heap as     *)
(* they were.                                                              *)
C13_Remove ==
    [][ last'.op = "remove" =>
          LET c == last'.c
          IN IF Resident(submaps, c)
             THEN /\ submaps' = Drop(submaps, c)
                  /\ heap' = Drop(heap, submaps[c])
                  /\ double_free' = double_free
                  /\ last'.diags = 0
             ELSE /\ last'.diags = 1
                  /\ submaps' = submaps
                  /\ heap' = heap
                  /\ double_free' = double_free ]_vars

\* The store when the first loop of save() has ended and the second has not begun.
AfterFirstPass(st, del, origin, levz, zlevels) ==
    SaveLoop(st, TRUE, tripoint_zero, del, origin, levz, zlevels)

(* C14.  Two-phase save: the first loop of save() leaves the index and the   *)
(* submaps as they were when it began, it has called save_quad for the     *)
(* quad of every submap in the buffer when it ends, and what the save      *)
(* removes it removes after that, in the second loop, from the queue.      *)
C14_TwoPhaseFlush ==
    [][ last'.op = "flush" =>
          LET st1 == AfterFirstPass(Store, last'.del, last'.origin, last'.levz,
                                    last'.zlevels)
          IN /\ st1.submaps = submaps
             /\ st1.heap = heap
             /\ \A c \in DOMAIN submaps :
                   \E i \in 1..Len(st1.calls) : st1.calls[i] = sm_to_omt_copy(c)
             /\ submaps' = RemoveQueued(st1, st1.queue, 1).submaps
             /\ heap' = RemoveQueued(st1, st1.queue, 1).heap ]_vars

\* The quads with a member that holds a submap.
ResidentQuads(m) == { sm_to_omt_copy(c) : c \in { k \in DOMAIN m : Resident(m, k) } }

\* How many times save_quad was called for quad q.
TimesCalled(calls, q) == Cardinality({ i \in 1..Len(calls) : calls[i] = q })

(* C15.  Each quad once: a save calls save_quad exactly once for every quad  *)
(* with a member that holds a submap when the save begins, however many    *)
(* of its members do, and for no other quad.                               *)
C15_EachQuadOnce ==
    [][ last'.op = "flush" =>
          LET calls == AfterFirstPass(Store, last'.del, last'.origin, last'.levz,
                                      last'.zlevels).calls
          IN /\ \A q \in ResidentQuads(submaps) : TimesCalled(calls, q) = 1
             /\ \A i \in 1..Len(calls) : calls[i] \in ResidentQuads(submaps) ]_vars

(* C16.  No phantom entries: every coordinate in the index maps to a live    *)
(* submap, never to nullptr; a save or a get adds no entry for a           *)
(* coordinate for which no submap was inserted or decoded.                 *)
C16_NoPhantomEntries ==
    \A c \in DOMAIN submaps : submaps[c] # nullptr /\ submaps[c] \in DOMAIN heap

(* C17.  Absence means generable: when get(c) answers nullptr, c is not in   *)
(* the index; an add_submap at c that follows at once answers true and     *)
(* get(c) then answers the submap added.                                   *)
C17_AbsenceMeansGenerable ==
    [][ /\ (last'.op = "get" /\ last'.ptr = nullptr /\ ~crashed')
              => last'.c \notin DOMAIN submaps'
        /\ (/\ last.op = "get" /\ last.ptr = nullptr
            /\ last'.op = "insert" /\ last'.c = last.c)
              => /\ last'.ok
                 /\ \A g \in BOOLEAN, ub \in NullDerefOutcomes :
                       lookup_submap(Store', last'.c, g, ub).ret = last'.ptr ]_vars

\* Every address on the queue holds a submap in the index m, and none is on
\* the queue twice.
SoundQueue(queue, m) ==
    \A i \in 1..Len(queue) :
       /\ Resident(m, queue[i])
       /\ \A j \in 1..(i - 1) : queue[j] # queue[i]

\* Every address on the queue is out of the index mAfter and the submap it
\* held in m is out of the heap hAfter.
QueueRemoved(queue, m, mAfter, hAfter) ==
    \A i \in 1..Len(queue) :
       queue[i] \notin DOMAIN mAfter /\ m[queue[i]] \notin DOMAIN hAfter

(* C18.  The deletion queue is sound: in a save, every address on the queue  *)
(* holds a submap and is on the queue once only, so the second loop, when  *)
(* it comes to remove it, finds it: it reports no diagnostic, frees no     *)
(* submap twice, and leaves every queued address out of the index with     *)
(* its submap freed.                                                       *)
C18_DeletionQueueSound ==
    [][ last'.op = "flush" =>
          /\ \A queue \in { AfterFirstPass(Store, last'.del, last'.origin, last'.levz,
                                             last'.zlevels).queue } :
                /\ SoundQueue(queue, submaps)
                /\ QueueRemoved(queue, submaps, submaps', heap')
          /\ last'.diags = 0
          /\ double_free' = double_free ]_vars

\* A save(true) of a quad two of whose members held a submap has written both,
\* removed both without a diagnostic, and left nothing but nullptr entries.
C18_Witness ==
    /\ last.op = "flush" /\ last.del /\ last.diags = 0 /\ ~double_free
    /\ Path(<<0, 0, 0>>) \in DOMAIN disk
    /\ MembersFile(disk[Path(<<0, 0, 0>>)], <<0, 0, 0>>)
    /\ Len(disk[Path(<<0, 0, 0>>)]) = 2
    /\ heap = << >>
    /\ DOMAIN submaps = { <<1, 0, 0>>, <<1, 1, 0>> }

\* file is what a save of quad q writes from the index m and the heap h: one
\* well-formed record for each member of q that holds a submap, with its
\* payload; between one and four of them, one at least of a submap that is not
\* uniform.
ChunkOf(file, q, m, h) ==
    /\ Len(file) >= 1 /\ Len(file) <= 4
    /\ MembersFile(file, q)
    /\ FileCoords(file) = { a \in MembersOf(q) : Resident(m, a) }
    /\ \A i \in 1..Len(file) : file[i][3].v = h[m[file[i][2].v]].data
    /\ \E i \in 1..Len(file) : ~h[m[file[i][2].v]].uniform

(* C19.  The files a save writes: the file at the path of quad q holds        *)
(* between 1 and 4 records, for pairwise distinct members of q, one for     *)
(* each member that holds a submap at the save, one at least of them not   *)
(* uniform; a save writes no other file, and never an empty one.           *)
C19_ChunkFileShape ==
    [][ last'.op = "flush" =>
          /\ \A q \in ResidentQuads(submaps) :
                (~NoNonUniform(submaps, heap, q) /\ ~disable_mapgen)
                   => /\ Path(q) \in DOMAIN disk'
                      /\ ChunkOf(disk'[Path(q)], q, submaps, heap)
          /\ \A path \in DOMAIN disk' :
                (path \notin DOMAIN disk \/ disk'[path] # disk[path])
                   => /\ disk'[path] # << >>
                      /\ \E q \in ResidentQuads(submaps) :
                            /\ path = Path(q)
                            /\ ChunkOf(disk'[path], q, submaps, heap) ]_vars

\* A save(false) has written a file of two records for a quad of which one
\* member holds a uniform submap, one a submap that is not uniform, and the
\* other two hold none.
C19_Witness ==
    /\ last.op = "flush" /\ ~last.del
    /\ Resident(submaps, <<0, 0, 0>>) /\ Resident(submaps, <<0, 1, 0>>)
    /\ heap[submaps[<<0, 0, 0>>]].uniform # heap[submaps[<<0, 1, 0>>]].uniform
    /\ ~Resident(submaps, <<1, 0, 0>>) /\ ~Resident(submaps, <<1, 1, 0>>)
    /\ Path(<<0, 0, 0>>) \in DOMAIN disk
    /\ ChunkOf(disk[Path(<<0, 0, 0>>)], <<0, 0, 0>>, submaps, heap)
    /\ Len(disk[Path(<<0, 0, 0>>)]) = 2

====
